---- MODULE Spec2Model ----
(***************************************************************************)
(* A model of vcloudtools: the record layer (vcloudtools/vcloud.py) and    *)
(* the session client with its XML decoders (vcloudtools/api.py).          *)
(*                                                                         *)
(* Three specifications share the module:                                  *)
(*   Spec         the client object: construction, login, _req, _lookup    *)
(*                and the accessors built on them, against a server whose  *)
(*                answers are chosen nondeterministically;                 *)
(*   SpecDecode   the decoders as pure functions of an XML fragment;       *)
(*   SpecRecords  org_nets / org_vdcs / org_vapps acting on an Org record. *)
(***************************************************************************)
EXTENDS Integers, Sequences, FiniteSets, TLC

VARIABLES
    constructed,  \* "no": before __init__, "yes": __init__ returned, "failed": it raised
    root,         \* self.root
    token,        \* self._token
    authHeader,   \* self._session.headers[VCLOUD_AUTH_HEADER]
    links,        \* self._links (NoneObj or a LinkIndex)
    linksSrc,     \* history: the document self._links was parsed from and the
                  \* auth header its request carried
    reqs,         \* the requests the latest operation handed to the transport
    last,         \* the operation that has just returned or raised: its name,
                  \* inputs, outcome and the session state before it
    el,           \* SpecDecode: the XML fragment handed to the decoders
    org           \* SpecRecords: the Org record held by the caller

vars == <<constructed, root, token, authHeader, links, linksSrc, reqs, last, el, org>>

(***************************************************************************)
(* Bounds of the model.                                                    *)
(***************************************************************************)
MaxChildren == 3   \* children of a fragment handed to the decoders
MaxLinks == 2      \* Link children of a session document / of a full Org
MaxOrgs == 2       \* Org / Network children of a list document

(***************************************************************************)
(* Python values.  None stands in string-valued slots, NoneObj in slots    *)
(* that hold a dict or a record.  A call either returns (Ok) or raises.    *)
(***************************************************************************)
None == "<None>"
NoneObj == [none |-> TRUE]
Ok(v) == [ok |-> TRUE, val |-> v]
Raise(e, a) == [ok |-> FALSE, exc |-> e, arg |-> a]

VCLOUD_AUTH_HEADER == "x-vcloud-authorization"
VCLOUD_VERSION == "1.5"
VCLOUD_MIME == "application/*+xml;version=1.5"
VCLOUD_NS == "http://www.vmware.com/vcloud/v1.5"
OVF_NS == "htp://schemas.dmtf.org/ovf"

(***************************************************************************)
(* XML elements as lxml presents them: a namespace and a local tag name    *)
(* (el.tag is "{ns}local", or "local" when ns is ""), the attributes, the  *)
(* text (None when there is none) and the child elements in document order.*)
(***************************************************************************)
Elem(ns, tag, attrib, text, children) ==
    [ns |-> ns, tag |-> tag, attrib |-> attrib, text |-> text, children |-> children]

NoAttrib == [a \in {} |-> ""]

\* el.findall('vcloud:<tag>', VCLOUD_NS): the direct children of that qualified name
FindAll(e, tag) == SelectSeq(e.children, LAMBDA c : c.ns = VCLOUD_NS /\ c.tag = tag)

\* el.find('vcloud:<tag>', VCLOUD_NS): the first such child, or None
Find(e, tag) == IF FindAll(e, tag) = <<>> THEN NoneObj ELSE Head(FindAll(e, tag))

(***************************************************************************)
(* vcloud.py: the records.  Each constructor takes keyword arguments: a    *)
(* missing required one or an unknown one is a TypeError, and every one    *)
(* given is stored as it is (an XML attribute named links or config ends   *)
(* up, as a string, in the field of that name).                            *)
(***************************************************************************)
Kw(attrib, k, default) == IF k \in DOMAIN attrib THEN attrib[k] ELSE default

KwOk(attrib, required, optional) ==
    required \subseteq DOMAIN attrib /\ DOMAIN attrib \subseteq (required \cup optional)

Link(attrib) ==
    IF ~KwOk(attrib, {"type", "href", "rel"}, {"name"}) THEN Raise("TypeError", "Link")
    ELSE Ok([type |-> attrib["type"], href |-> attrib["href"], rel |-> attrib["rel"],
             name |-> Kw(attrib, "name", None)])

ResourceEntity(attrib) ==
    IF ~KwOk(attrib, {"type", "href"}, {"name"}) THEN Raise("TypeError", "ResourceEntity")
    ELSE Ok([type |-> attrib["type"], href |-> attrib["href"],
             name |-> Kw(attrib, "name", None)])

OrgRec(type, href, name, id, full_name, description, lnks) ==
    [type |-> type, href |-> href, name |-> name, id |-> id, full_name |-> full_name,
     description |-> description, links |-> lnks]

Org(attrib) ==
    IF ~KwOk(attrib, {"type", "href", "name"}, {"id", "full_name", "description", "links"})
    THEN Raise("TypeError", "Org")
    ELSE Ok(OrgRec(attrib["type"], attrib["href"], attrib["name"], Kw(attrib, "id", None),
                   Kw(attrib, "full_name", None), Kw(attrib, "description", None),
                   Kw(attrib, "links", NoneObj)))

ExtNetRec(type, href, name, config, id, description, lnks) ==
    [type |-> type, href |-> href, name |-> name, config |-> config, id |-> id,
     description |-> description, links |-> lnks]

ExtNet(attrib) ==
    IF ~KwOk(attrib, {"type", "href", "name"}, {"config", "id", "description", "links"})
    THEN Raise("TypeError", "ExtNet")
    ELSE Ok(ExtNetRec(attrib["type"], attrib["href"], attrib["name"],
                      Kw(attrib, "config", NoneObj), Kw(attrib, "id", None),
                      Kw(attrib, "description", None), Kw(attrib, "links", NoneObj)))

OrgVdc(type, href, name, id, storage, compute, lnks, entities) ==
    [type |-> type, href |-> href, name |-> name, id |-> id, storage |-> storage,
     compute |-> compute, links |-> lnks, entities |-> entities]

OrgNet(name, gateway, netmask, dns, ranges) ==
    [name |-> name, gateway |-> gateway, netmask |-> netmask, dns |-> dns, ranges |-> ranges]

IpRange(first, lst) == [first |-> first, last |-> lst]

\* OrgList.org_by_name / ExtNetList.ext_net_by_name: the first item of that name, or None
RECURSIVE org_by_name(_, _)
org_by_name(orgs, name) ==
    IF orgs = <<>> THEN NoneObj
    ELSE IF Head(orgs).name = name THEN Head(orgs)
    ELSE org_by_name(Tail(orgs), name)

RECURSIVE ext_net_by_name(_, _)
ext_net_by_name(ext_nets, name) ==
    IF ext_nets = <<>> THEN NoneObj
    ELSE IF Head(ext_nets).name = name THEN Head(ext_nets)
    ELSE ext_net_by_name(Tail(ext_nets), name)

(***************************************************************************)
(* defaultdict(list): a function from the keys present to lists.           *)
(***************************************************************************)
EmptyDict == [k \in {} |-> <<>>]

\* d[k] on a defaultdict(list): the dict afterwards (a missing key is inserted
\* with an empty list) and the list
DefaultDictGet(d, k) ==
    IF k \in DOMAIN d THEN [dict |-> d, list |-> d[k]]
    ELSE [dict |-> [x \in DOMAIN d \cup {k} |-> IF x = k THEN <<>> ELSE d[x]], list |-> <<>>]

\* a faulty res[k].append(v): the new item is put first
DefaultDictPrepend(d, k, v) ==
    [x \in DOMAIN d \cup {k} |-> IF x = k THEN <<v>> \o DefaultDictGet(d, k).list ELSE d[x]]

\* res[k].append(v)
DefaultDictAppend(d, k, v) ==
    [x \in DOMAIN d \cup {k} |-> IF x = k THEN Append(DefaultDictGet(d, k).list, v) ELSE d[x]]

(***************************************************************************)
(* api.py: the decoders.  The attribute reads el.attrib['k'] raise         *)
(* KeyError, x.text and x.find on a missing element (None) raise           *)
(* AttributeError, iterating None raises TypeError.                        *)
(***************************************************************************)
_parse_link(e) == Link(e.attrib)

_parse_resource_entity(e) == ResourceEntity(e.attrib)

_parse_org_short(e) == Org(e.attrib)

_parse_ext_net_short(e) == ExtNet(e.attrib)

\* the loop of _parse_links over the Link children found
RECURSIVE ParseLinksLoop(_, _)
ParseLinksLoop(cs, res) ==
    IF cs = <<>> THEN Ok(res)
    ELSE LET link == _parse_link(Head(cs))
         IN IF ~link.ok THEN link
            ELSE ParseLinksLoop(Tail(cs), DefaultDictAppend(res, link.val.type, link.val))

_parse_links(e) == ParseLinksLoop(FindAll(e, "Link"), EmptyDict)

\* the loop of _parse_resource_entities over the ResourceEntity children found
RECURSIVE ParseEntitiesLoop(_, _)
ParseEntitiesLoop(cs, res) ==
    IF cs = <<>> THEN Ok(res)
    ELSE LET re == _parse_resource_entity(Head(cs))
         IN IF ~re.ok THEN re
            ELSE ParseEntitiesLoop(Tail(cs), DefaultDictAppend(res, re.val.type, re.val))

_parse_resource_entities(e) ==
    LET c == Find(e, "ResourceEntities")
    IN IF c = NoneObj THEN Raise("AttributeError", "findall")
       ELSE ParseEntitiesLoop(FindAll(c, "ResourceEntity"), EmptyDict)

\* [f(c) for c in cs] for the two list decoders
RECURSIVE ParseOrgShorts(_)
ParseOrgShorts(cs) ==
    IF cs = <<>> THEN Ok(<<>>)
    ELSE LET o == _parse_org_short(Head(cs))
             rest == ParseOrgShorts(Tail(cs))
         IN IF ~o.ok THEN o ELSE IF ~rest.ok THEN rest ELSE Ok(<<o.val>> \o rest.val)

_parse_org_list(e) ==
    LET orgs == ParseOrgShorts(FindAll(e, "Org"))
    IN IF ~orgs.ok THEN orgs ELSE Ok([orgs |-> orgs.val])

RECURSIVE ParseExtNetShorts(_)
ParseExtNetShorts(cs) ==
    IF cs = <<>> THEN Ok(<<>>)
    ELSE LET n == _parse_ext_net_short(Head(cs))
             rest == ParseExtNetShorts(Tail(cs))
         IN IF ~n.ok THEN n ELSE IF ~rest.ok THEN rest ELSE Ok(<<n.val>> \o rest.val)

_parse_ext_net_list(e) ==
    LET c == Find(e, "Networks")
    IN IF c = NoneObj THEN Raise("AttributeError", "findall")
       ELSE LET nets == ParseExtNetShorts(FindAll(c, "Network"))
            IN IF ~nets.ok THEN nets ELSE Ok([ext_nets |-> nets.val])

\* the four reads type_, href, name, id_ that open the full decoders, in that order
IdentityMissing(e) ==
    IF "type" \notin DOMAIN e.attrib THEN "type"
    ELSE IF "href" \notin DOMAIN e.attrib THEN "href"
    ELSE IF "name" \notin DOMAIN e.attrib THEN "name"
    ELSE IF "id" \notin DOMAIN e.attrib THEN "id"
    ELSE None

_parse_org(e) ==
    IF IdentityMissing(e) # None THEN Raise("KeyError", IdentityMissing(e))
    ELSE IF Find(e, "FullName") = NoneObj THEN Raise("AttributeError", "text")
    ELSE IF Find(e, "Description") = NoneObj THEN Raise("AttributeError", "text")
    ELSE LET lnks == _parse_links(e)
         IN IF ~lnks.ok THEN lnks
            ELSE Ok(OrgRec(e.attrib["type"], e.attrib["href"], e.attrib["name"],
                           e.attrib["id"], Find(e, "FullName").text,
                           Find(e, "Description").text, lnks.val))

_parse_ext_net(e) ==
    IF IdentityMissing(e) # None THEN Raise("KeyError", IdentityMissing(e))
    ELSE IF Find(e, "Description") = NoneObj THEN Raise("AttributeError", "text")
    ELSE LET lnks == _parse_links(e)
         IN IF ~lnks.ok THEN lnks
            ELSE Ok(ExtNetRec(e.attrib["type"], e.attrib["href"], e.attrib["name"],
                              Find(e, "Configuration"), e.attrib["id"],
                              Find(e, "Description").text, lnks.val))

\* for k in raw: cap[k.tag.split('}')[1]] = k.text   (a later child of the same
\* local name overwrites; a tag without a namespace has no '}' to split on)
RECURSIVE CapacityBag(_, _)
CapacityBag(cs, cap) ==
    IF cs = <<>> THEN Ok(cap)
    ELSE IF Head(cs).ns = "" THEN Raise("IndexError", "split")
    ELSE CapacityBag(Tail(cs),
             [k \in DOMAIN cap \cup {Head(cs).tag} |->
                 IF k = Head(cs).tag THEN Head(cs).text ELSE cap[k]])

NoBag == [k \in {} |-> None]

_parse_org_vdcs(e) ==
    IF IdentityMissing(e) # None THEN Raise("KeyError", IdentityMissing(e))
    ELSE IF Find(e, "StorageCapacity") = NoneObj THEN Raise("TypeError", "iter")
    ELSE LET s_cap == CapacityBag(Find(e, "StorageCapacity").children, NoBag)
             raw_compute == Find(e, "ComputeCapacity")
         IN IF ~s_cap.ok THEN s_cap
            ELSE IF raw_compute = NoneObj THEN Raise("AttributeError", "find")
            ELSE IF Find(raw_compute, "Cpu") = NoneObj THEN Raise("TypeError", "iter")
            ELSE LET cpu == CapacityBag(Find(raw_compute, "Cpu").children, NoBag)
                 IN IF ~cpu.ok THEN cpu
                    ELSE IF Find(raw_compute, "Memory") = NoneObj THEN Raise("TypeError", "iter")
                    ELSE LET memory == CapacityBag(Find(raw_compute, "Memory").children, NoBag)
                             lnks == _parse_links(e)
                             r_entities == _parse_resource_entities(e)
                         IN IF ~memory.ok THEN memory
                            ELSE IF ~lnks.ok THEN lnks
                            ELSE IF ~r_entities.ok THEN r_entities
                            ELSE Ok(OrgVdc(e.attrib["type"], e.attrib["href"],
                                           e.attrib["name"], e.attrib["id"], s_cap.val,
                                           [cpu |-> cpu.val, memory |-> memory.val],
                                           lnks.val, r_entities.val))

\* the loop of _parse_ip_ranges; the label name is built (str + None is a
\* TypeError) and dropped
RECURSIVE ParseIpRangesLoop(_, _, _)
ParseIpRangesLoop(net_name, rs, ranges) ==
    IF rs = <<>> THEN Ok(ranges)
    ELSE IF Find(Head(rs), "StartAddress") = NoneObj THEN Raise("AttributeError", "text")
    ELSE IF Find(Head(rs), "EndAddress") = NoneObj THEN Raise("AttributeError", "text")
    ELSE LET first == Find(Head(rs), "StartAddress").text
             lst == Find(Head(rs), "EndAddress").text
         IN IF first = None \/ lst = None THEN Raise("TypeError", "concatenate")
            ELSE ParseIpRangesLoop(net_name, Tail(rs), Append(ranges, IpRange(first, lst)))

_parse_ip_ranges(net_name, e) ==
    IF e = NoneObj THEN Raise("AttributeError", "findall")
    ELSE ParseIpRangesLoop(net_name, FindAll(e, "IpRange"), <<>>)

_parse_org_nets(e) ==
    LET configuration == Find(e, "Configuration")
    IN IF configuration = NoneObj THEN Raise("AttributeError", "find")
       ELSE LET ipscope == Find(configuration, "IpScope")
            IN IF ipscope = NoneObj THEN Raise("AttributeError", "find")
               ELSE IF Find(ipscope, "Gateway") = NoneObj THEN Raise("AttributeError", "text")
               ELSE IF Find(ipscope, "Netmask") = NoneObj THEN Raise("AttributeError", "text")
               ELSE IF Find(ipscope, "DnsSuffix") = NoneObj THEN Raise("AttributeError", "text")
               ELSE IF "name" \notin DOMAIN e.attrib THEN Raise("KeyError", "name")
               ELSE LET ranges == _parse_ip_ranges(e.attrib["name"], Find(ipscope, "IpRanges"))
                    IN IF ~ranges.ok THEN ranges
                       ELSE Ok(OrgNet(e.attrib["name"], Find(ipscope, "Gateway").text,
                                      Find(ipscope, "Netmask").text,
                                      Find(ipscope, "DnsSuffix").text, ranges.val))

(***************************************************************************)
(* The XML the model feeds to the code.                                    *)
(***************************************************************************)
SeqsUpTo(S, n) == UNION {[1..k -> S] : k \in 0..n}

Leaf(tag, text) == Elem(VCLOUD_NS, tag, NoAttrib, text, <<>>)

T_ORG == "application/vnd.vmware.vcloud.org+xml"
T_ORGLIST == "application/vnd.vmware.vcloud.orgList+xml"
T_ADMIN == "application/vnd.vmware.admin.vcloud+xml"
T_VDC == "application/vnd.vmware.vcloud.vdc+xml"
T_ORGNET == "application/vnd.vmware.vcloud.orgNetwork+xml"
T_VAPP == "application/vnd.vmware.vcloud.vApp+xml"
T_MEDIA == "application/vnd.vmware.vcloud.media+xml"
T_EXTNET == "application/vnd.vmware.admin.network+xml"

LinkEl(ns, type, href) ==
    Elem(ns, "Link", [a \in {"type", "href", "rel"} |->
                         CASE a = "type" -> type [] a = "href" -> href [] OTHER -> "down"],
         None, <<>>)

\* a Link without its rel attribute: Link(**el.attrib) rejects it
LinkNoRel ==
    Elem(VCLOUD_NS, "Link", [a \in {"type", "href"} |->
                                IF a = "type" THEN T_VDC ELSE "https://vc/api/vdc/9"],
         None, <<>>)

EntityEl(type, href, name) ==
    Elem(VCLOUD_NS, "ResourceEntity",
         [a \in {"type", "href", "name"} |->
             CASE a = "type" -> type [] a = "href" -> href [] OTHER -> name],
         None, <<>>)

\* a ResourceEntity without its href attribute
EntityNoHref ==
    Elem(VCLOUD_NS, "ResourceEntity", [a \in {"type"} |-> T_VAPP], None, <<>>)

EntityPool ==
    {EntityEl(T_VAPP, "https://vc/api/vApp/1", "web"),
     EntityEl(T_VAPP, "https://vc/api/vApp/2", "db"),
     EntityEl(T_MEDIA, "https://vc/api/media/1", "iso"),
     EntityNoHref}

ResourceEntitiesEl(cs) == Elem(VCLOUD_NS, "ResourceEntities", NoAttrib, None, cs)

StorageCapacityEl ==
    Elem(VCLOUD_NS, "StorageCapacity", NoAttrib, None,
         <<Leaf("Allocated", "100"), Leaf("Used", "50")>>)

ComputeCapacityEl ==
    Elem(VCLOUD_NS, "ComputeCapacity", NoAttrib, None,
         <<Elem(VCLOUD_NS, "Cpu", NoAttrib, None, <<Leaf("Allocated", "2000")>>),
           Elem(VCLOUD_NS, "Memory", NoAttrib, None, <<Leaf("Limit", "4096")>>)>>)

ChildPool ==
    {Leaf("FullName", "Acme Corp"),
     Leaf("Description", None),
     Leaf("Configuration", None),
     StorageCapacityEl,
     ComputeCapacityEl,
     ResourceEntitiesEl(<<EntityEl(T_VAPP, "https://vc/api/vApp/1", "web"),
                          EntityEl(T_MEDIA, "https://vc/api/media/1", "iso")>>),
     LinkEl(VCLOUD_NS, T_VDC, "https://vc/api/vdc/1"),
     LinkEl(VCLOUD_NS, T_VDC, "https://vc/api/vdc/2"),
     LinkEl(VCLOUD_NS, T_ORGNET, "https://vc/api/network/1"),
     LinkEl(OVF_NS, T_VDC, "https://vc/api/vdc/3"),
     LinkNoRel}

IdentityValue(a) ==
    CASE a = "type" -> T_ORG
      [] a = "href" -> "https://vc/api/org/1"
      [] a = "name" -> "Acme"
      [] OTHER -> "urn:vcloud:org:1"

AllIdentity == {"type", "href", "name", "id"}

\* every attribute present, or exactly one of them missing
AttribChoices ==
    {[a \in S |-> IdentityValue(a)] : S \in {AllIdentity} \cup {AllIdentity \ {x} : x \in AllIdentity}}

Fragments ==
    {Elem(VCLOUD_NS, "Org", at, None, cs) :
        at \in AttribChoices, cs \in SeqsUpTo(ChildPool, MaxChildren)}
    \cup
    {Elem(VCLOUD_NS, "Vdc", [a \in AllIdentity |-> IdentityValue(a)], None,
          <<ResourceEntitiesEl(cs)>>) : cs \in SeqsUpTo(EntityPool, MaxChildren)}

(***************************************************************************)
(* SpecDecode: a fragment is drawn and one decoder is applied to it.       *)
(***************************************************************************)
ClientIdle ==
    /\ constructed = "no" /\ root = None /\ token = None /\ authHeader = None
    /\ links = NoneObj /\ linksSrc = NoneObj

ClientUnchanged ==
    UNCHANGED <<constructed, root, token, authHeader, links, linksSrc>>

InitDecode ==
    /\ ClientIdle
    /\ reqs = <<>>
    /\ org = NoneObj
    /\ el \in Fragments
    /\ last = [op |-> "init"]

Decoded(name, res) ==
    /\ last.op = "init"
    /\ last' = [op |-> name, res |-> res]
    /\ ClientUnchanged
    /\ UNCHANGED <<reqs, el, org>>

DecodeLinks == Decoded("_parse_links", _parse_links(el))

DecodeResourceEntities == Decoded("_parse_resource_entities", _parse_resource_entities(el))

DecodeOrg == Decoded("_parse_org", _parse_org(el))

DecodeExtNet == Decoded("_parse_ext_net", _parse_ext_net(el))

DecodeOrgVdcs == Decoded("_parse_org_vdcs", _parse_org_vdcs(el))

NextDecode ==
    \/ DecodeLinks
    \/ DecodeResourceEntities
    \/ DecodeOrg
    \/ DecodeExtNet
    \/ DecodeOrgVdcs

SpecDecode == InitDecode /\ [][NextDecode]_vars

(***************************************************************************)
(* Claims about the decoders (SpecDecode).                                 *)
(***************************************************************************)
\* idx groups the elements cs by their type attribute, keeping document order
StableGrouping(idx, cs) ==
    /\ DOMAIN idx = {cs[i].attrib["type"] : i \in 1..Len(cs)}
    /\ \A t \in DOMAIN idx :
          LET same == SelectSeq(cs, LAMBDA c : c.attrib["type"] = t)
          IN /\ Len(idx[t]) = Len(same)
             /\ \A j \in 1..Len(same) :
                   /\ idx[t][j].type = t
                   /\ idx[t][j].href = same[j].attrib["href"]
                   /\ idx[t][j].name = Kw(same[j].attrib, "name", None)

LinkChildren(e) == SelectSeq(e.children, LAMBDA c : c.ns = VCLOUD_NS /\ c.tag = "Link")

EntityChildren(e) ==
    LET box == SelectSeq(e.children, LAMBDA c : c.ns = VCLOUD_NS /\ c.tag = "ResourceEntities")
    IN SelectSeq(box[1].children, LAMBDA c : c.ns = VCLOUD_NS /\ c.tag = "ResourceEntity")

\* C7: whenever _parse_links (or _parse_resource_entities) returns an index for
\* a parent element, the keys of the index are exactly the type attributes of
\* the parent's Link (ResourceEntity) children, and the list under each key
\* holds exactly the children of that type, once each, in document order.
C7_StableGrouping ==
    /\ (last.op = "_parse_links" /\ last.res.ok)
          => StableGrouping(last.res.val, LinkChildren(el))
    /\ (last.op = "_parse_resource_entities" /\ last.res.ok)
          => StableGrouping(last.res.val, EntityChildren(el))

\* a parent whose Link children are of two types, interleaved: vdc, other, vdc
C7_Witness ==
    /\ last.op = "_parse_links"
    /\ last.res.ok
    /\ Len(LinkChildren(el)) = 3
    /\ T_VDC \in DOMAIN last.res.val
    /\ Len(last.res.val[T_VDC]) = 2
    /\ last.res.val[T_VDC][1] # last.res.val[T_VDC][2]
    /\ LinkChildren(el)[2].attrib["type"] # T_VDC

\* C8 (as claimed): the org, ext-net and org-vdc decoders fail exactly when one
\* of the identity attributes type, href, name is missing; a fragment that has
\* the three decodes, a missing optional attribute or child becoming None.
C8_FailsOnlyOnIdentity ==
    last.op \in {"_parse_org", "_parse_ext_net", "_parse_org_vdcs"}
        => /\ last.res.ok <=> {"type", "href", "name"} \subseteq DOMAIN el.attrib
           /\ (last.res.ok /\ "id" \notin DOMAIN el.attrib) => last.res.val.id = None

(***************************************************************************)
(* api.py: the client.  The transport (requests.Session.request) either    *)
(* returns a response or raises one of its own exceptions; t below is that *)
(* outcome.                                                                *)
(***************************************************************************)
Response(status_code, headers, content) ==
    [status_code |-> status_code, headers |-> headers, content |-> content]

\* a faulty status check: every status outside 2xx raises
RaiseForAnyNon2xx(res) ==
    IF res.status_code < 200 \/ res.status_code >= 300
    THEN Raise("APIError", "HTTPError") ELSE Ok(None)

\* Response.raise_for_status raises HTTPError for a 4xx or 5xx status
\* and _custom_raise_for_status turns it into APIError
_custom_raise_for_status(res) ==
    IF 400 <= res.status_code /\ res.status_code < 600
    THEN Raise("APIError", "HTTPError") ELSE Ok(None)

\* Response.ok: raise_for_status does not raise
ResponseOk(res) == ~(400 <= res.status_code /\ res.status_code < 600)

\* a faulty probe: logged in whatever the answer
AlwaysOk(res) == TRUE

\* self.logged_in, given the response _req(..., _raise=False) returned
logged_in(res) == ResponseOk(res)

\* self._req: the transport's exception propagates; the status is checked only
\* when _raise is set
_req(t, _raise) ==
    IF ~t.ok THEN t
    ELSE IF _raise /\ ~_custom_raise_for_status(t.val).ok
         THEN _custom_raise_for_status(t.val)
         ELSE Ok(t.val)

\* the headers a request of the session carries: the session's own, those set
\* to None left out
SentHeaders(hdr) ==
    [k \in (IF hdr = None THEN {"accept"} ELSE {"accept", VCLOUD_AUTH_HEADER}) |->
        IF k = "accept" THEN VCLOUD_MIME ELSE hdr]

Request(method, url, hdr, auth) ==
    [method |-> method, url |-> url, headers |-> SentHeaders(hdr), auth |-> auth]

_url(rt, path) == rt \o path

full_typ(typ) == "application/vnd.vmware." \o typ \o "+xml"

\* a faulty _lookup: the href of the last link registered under the type
LookupLast(lnks, typ) ==
    IF lnks = NoneObj THEN Raise("TypeError", "in")
    ELSE IF full_typ(typ) \in DOMAIN lnks
         THEN Ok(lnks[full_typ(typ)][Len(lnks[full_typ(typ)])].href)
         ELSE Raise("APIError", "Don't know anything about type")

\* self._lookup(typ) with self._links = lnks
_lookup(lnks, typ) ==
    IF lnks = NoneObj THEN Raise("TypeError", "in")
    ELSE IF full_typ(typ) \in DOMAIN lnks
         THEN IF lnks[full_typ(typ)] = <<>> THEN Raise("IndexError", "list")
              ELSE Ok(lnks[full_typ(typ)][1].href)
         ELSE Raise("APIError", "Don't know anything about type")

\* lxml.etree.fromstring: the body is an XML document or it is not
NotXml(bytes) == [raw |-> bytes]
fromstring(content) ==
    IF "raw" \in DOMAIN content THEN Raise("XMLSyntaxError", "fromstring") ELSE Ok(content)

\* res = self._req(...); etree = fromstring(res.content), for a raising request
Fetch(t) ==
    IF ~_req(t, TRUE).ok THEN _req(t, TRUE) ELSE fromstring(_req(t, TRUE).val.content)

_fetch_initial_links(t) == IF ~Fetch(t).ok THEN Fetch(t) ELSE _parse_links(Fetch(t).val)

\* a faulty token setter: the session's header is left as it was
TokenSetterStale(tok) == [token |-> tok, authHeader |-> authHeader]

\* the token setter: self._token and the session's auth header
token_setter(tok) == [token |-> tok, authHeader |-> tok]

(***************************************************************************)
(* The server and the environment.                                         *)
(***************************************************************************)
Statuses == {199, 200, 204, 304, 399, 400, 404, 500, 599, 600}

TransportErrors == {Raise("ConnectionError", "request"), Raise("Timeout", "request")}

NoHeaders == [k \in {} |-> None]

\* what the transport may do with a request whose good answers are docs: raise,
\* or return a response; a 200 carries a document or bytes that are no XML, any
\* other status an empty body
Answers(docs, hdrs) ==
    TransportErrors
    \cup {Ok(Response(s, h, NotXml(""))) : s \in Statuses \ {200}, h \in hdrs}
    \cup {Ok(Response(200, h, c)) : h \in hdrs, c \in docs \cup {NotXml("<html>")}}

Tokens == {"tokA", "tokB"}

LoginHeaders == {NoHeaders} \cup {[k \in {VCLOUD_AUTH_HEADER} |-> tk] : tk \in Tokens}

Credentials == {<<"alice", "secret">>, <<"alice", "wrong">>}

SessionLinkPool ==
    {LinkEl(VCLOUD_NS, T_ORGLIST, "https://vc/api/org/"),
     LinkEl(VCLOUD_NS, T_ORGLIST, "https://vc/api/org2/"),
     LinkEl(VCLOUD_NS, T_ADMIN, "https://vc/api/admin/")}

SessionDocs ==
    {Elem(VCLOUD_NS, "Session", NoAttrib, None, cs) : cs \in SeqsUpTo(SessionLinkPool, MaxLinks)}

ShortEl(tag, type, href, name) ==
    Elem(VCLOUD_NS, tag,
         [a \in {"type", "href", "name"} |->
             CASE a = "type" -> type [] a = "href" -> href [] OTHER -> name],
         None, <<>>)

\* a short element that also carries an attribute named links: the record
\* constructor takes it as the keyword of that name and stores the string
ShortElLinks(tag, type, href, name, lnk) ==
    Elem(VCLOUD_NS, tag,
         [a \in {"type", "href", "name", "links"} |->
             CASE a = "type" -> type [] a = "href" -> href [] a = "name" -> name
               [] OTHER -> lnk],
         None, <<>>)

OrgShortPool ==
    {ShortEl("Org", T_ORG, "https://vc/api/org/1", "Acme"),
     ShortElLinks("Org", T_ORG, "https://vc/api/org/2", "Acme", "L")}

OrgListDocs ==
    {Elem(VCLOUD_NS, "OrgList", NoAttrib, None, cs) : cs \in SeqsUpTo(OrgShortPool, MaxOrgs)}

NetShortPool ==
    {ShortEl("Network", T_EXTNET, "https://vc/api/admin/network/1", "dmz"),
     ShortElLinks("Network", T_EXTNET, "https://vc/api/admin/network/2", "dmz", "L")}

ExtNetListDocs ==
    {Elem(VCLOUD_NS, "VCloud", NoAttrib, None, <<Elem(VCLOUD_NS, "Networks", NoAttrib, None, cs)>>) :
        cs \in SeqsUpTo(NetShortPool, MaxOrgs)}
    \cup {Elem(VCLOUD_NS, "VCloud", NoAttrib, None, <<>>)}

FullDoc(tag, cs) == Elem(VCLOUD_NS, tag, [a \in AllIdentity |-> IdentityValue(a)], None, cs)

FullOrgDocs ==
    {FullDoc("Org", <<Leaf("FullName", "Acme Corp"), Leaf("Description", "tenant"),
                      LinkEl(VCLOUD_NS, T_VDC, "https://vc/api/vdc/1")>>),
     FullDoc("Org", <<Leaf("FullName", "Acme Corp")>>)}

FullExtNetDocs ==
    {FullDoc("ExternalNetwork", <<Leaf("Description", "uplink"), Leaf("Configuration", None)>>),
     FullDoc("ExternalNetwork", <<Leaf("Description", "uplink")>>),
     FullDoc("ExternalNetwork", <<Leaf("Configuration", None)>>)}

\* the root argument of __init__ and the environment it reads
RootArgs == {None, "https://vc/api"}
EnvRoots == {None, "https://env/api"}
EnvTokens == {None} \cup Tokens

Paths == {"/", "/org/"}
ShortTypes == {"vcloud.orgList", "admin.vcloud", "vcloud.vdc"}
Names == {"Acme", "Beta", "acme"}
NetNames == {"dmz", "wan"}

(***************************************************************************)
(* Spec: the client object.  The caller makes one call at a time: a call   *)
(* runs to its return or its exception (recorded in last), the caller      *)
(* takes the outcome (Return) and may call again.                          *)
(***************************************************************************)
Idle == [op |-> "idle"]

Init ==
    /\ constructed = "no"
    /\ root = None
    /\ token = None
    /\ authHeader = None
    /\ links = NoneObj
    /\ linksSrc = NoneObj
    /\ reqs = <<>>
    /\ last = Idle
    /\ el = NoneObj
    /\ org = NoneObj

Same == [token |-> token, authHeader |-> authHeader]

Pre == [token |-> token, links |-> links]

ClientBecomes(c, rt, st, lk, ls, rq, la) ==
    /\ constructed' = c
    /\ root' = rt
    /\ token' = st.token
    /\ authHeader' = st.authHeader
    /\ links' = lk
    /\ linksSrc' = ls
    /\ reqs' = rq
    /\ last' = la
    /\ UNCHANGED <<el, org>>

\* an operation that leaves the session state alone
Called(la, rq) == ClientBecomes("yes", root, Same, links, linksSrc, rq, la)

Ready == constructed = "yes" /\ last = Idle

\* the caller takes the outcome of the call
Return ==
    /\ last # Idle
    /\ constructed # "failed"
    /\ last' = Idle
    /\ reqs' = <<>>
    /\ UNCHANGED <<constructed, root, token, authHeader, links, linksSrc, el, org>>

\* VCloudAPIClient.__init__(root), with the environment it reads; the probe
\* reads only the status of its answer
Construct ==
    /\ constructed = "no"
    /\ \E rootArg \in RootArgs, envRoot \in EnvRoots, envToken \in EnvTokens :
          LET st == token_setter(envToken)
              rt == IF rootArg # None THEN rootArg ELSE envRoot
              init(res, probe) ==
                  [op |-> "__init__", res |-> res, probe |-> probe, envToken |-> envToken]
          IN IF rt = None
             THEN ClientBecomes("failed", None, st, NoneObj, NoneObj, <<>>,
                                init(Raise("ClientError", "No known API root"), 0))
             ELSE \E t1 \in Answers({}, {NoHeaders}) :
                     LET get == Request("get", _url(rt, "/session"), st.authHeader, None)
                     IN IF ~_req(t1, FALSE).ok
                        THEN ClientBecomes("failed", rt, st, NoneObj, NoneObj, <<get>>,
                                           init(_req(t1, FALSE), 0))
                        ELSE IF ~logged_in(_req(t1, FALSE).val)
                        THEN ClientBecomes("yes", rt, st, NoneObj, NoneObj, <<get>>,
                                           init(Ok(None), t1.val.status_code))
                        ELSE \E t2 \in Answers(SessionDocs, {NoHeaders}) :
                                LET f == _fetch_initial_links(t2)
                                IN IF ~f.ok
                                   THEN ClientBecomes("failed", rt, st, NoneObj, NoneObj,
                                                      <<get, get>>, init(f, t1.val.status_code))
                                   ELSE ClientBecomes("yes", rt, st, f.val,
                                                      [doc |-> t2.val.content, auth |-> st.authHeader],
                                                      <<get, get>>,
                                                      init(Ok(None), t1.val.status_code))

\* VCloudAPIClient.login(username, password)
Login ==
    /\ Ready
    /\ \E cred \in Credentials, t1 \in Answers({}, LoginHeaders) :
          LET post == Request("post", _url(root, "/sessions"), authHeader, cred)
              res == _req(t1, TRUE)
              login(r, tk, doc) ==
                  [op |-> "login", pre |-> Pre, res |-> r, hdrTok |-> tk, doc |-> doc]
          IN IF ~res.ok
             THEN ClientBecomes("yes", root, Same, links, linksSrc, <<post>>,
                                login(res, None, NoneObj))
             ELSE IF VCLOUD_AUTH_HEADER \notin DOMAIN res.val.headers
             THEN ClientBecomes("yes", root, Same, links, linksSrc, <<post>>,
                                login(Raise("KeyError", VCLOUD_AUTH_HEADER), None, NoneObj))
             ELSE LET tk == res.val.headers[VCLOUD_AUTH_HEADER]
                      st == token_setter(tk)
                      get == Request("get", _url(root, "/session"), st.authHeader, None)
                  IN \E t2 \in Answers(SessionDocs, {NoHeaders}) :
                        LET f == _fetch_initial_links(t2)
                        IN IF ~f.ok
                           THEN ClientBecomes("yes", root, st, links, linksSrc,
                                              <<post, get>>, login(f, tk, NoneObj))
                           ELSE ClientBecomes("yes", root, st, f.val,
                                              [doc |-> t2.val.content, auth |-> st.authHeader],
                                              <<post, get>>,
                                              login(Ok(None), tk, t2.val.content))

\* an assignment client.token = tok: the public setter, no request is made
SetToken ==
    /\ Ready
    /\ \E tok \in EnvTokens :
          ClientBecomes("yes", root, token_setter(tok), links, linksSrc, <<>>,
                        [op |-> "token=", pre |-> Pre, arg |-> tok, res |-> Ok(None)])

\* a direct call of self._req(method, url, _raise)
ReqCall ==
    /\ Ready
    /\ \E _raise \in BOOLEAN, path \in Paths, t \in Answers(FullOrgDocs, {NoHeaders}) :
          Called([op |-> "_req", pre |-> Pre, raise |-> _raise, t |-> t, res |-> _req(t, _raise)],
                 <<Request("get", _url(root, path), authHeader, None)>>)

\* VCloudAPIClient.browse(path)
Browse ==
    /\ Ready
    /\ \E path \in Paths, t \in Answers(FullOrgDocs, {NoHeaders}) :
          Called([op |-> "browse", pre |-> Pre, res |-> _req(t, TRUE)],
                 <<Request("get", _url(root, path), authHeader, None)>>)

\* the property VCloudAPIClient.logged_in, read after construction
LoggedIn ==
    /\ Ready
    /\ \E t \in Answers({}, {NoHeaders}) :
          Called([op |-> "logged_in", pre |-> Pre,
                  res |-> IF ~_req(t, FALSE).ok THEN _req(t, FALSE)
                          ELSE Ok(logged_in(_req(t, FALSE).val))],
                 <<Request("get", _url(root, "/session"), authHeader, None)>>)

\* a direct call of self._lookup(typ)
Lookup ==
    /\ Ready
    /\ \E typ \in ShortTypes :
          Called([op |-> "_lookup", pre |-> Pre, arg |-> typ, res |-> _lookup(links, typ)], <<>>)

\* org_list() and ext_net_list(): the outcome and the requests issued
org_list(t) ==
    LET url == _lookup(links, "vcloud.orgList")
    IN IF ~url.ok THEN [res |-> url, reqs |-> <<>>]
       ELSE [res |-> IF ~Fetch(t).ok THEN Fetch(t) ELSE _parse_org_list(Fetch(t).val),
             reqs |-> <<Request("get", url.val, authHeader, None)>>]

ext_net_list(t) ==
    LET url == _lookup(links, "admin.vcloud")
    IN IF ~url.ok THEN [res |-> url, reqs |-> <<>>]
       ELSE [res |-> IF ~Fetch(t).ok THEN Fetch(t) ELSE _parse_ext_net_list(Fetch(t).val),
             reqs |-> <<Request("get", url.val, authHeader, None)>>]

OrgListCall ==
    /\ Ready
    /\ \E t \in Answers(OrgListDocs, {NoHeaders}) :
          Called([op |-> "org_list", pre |-> Pre, res |-> org_list(t).res], org_list(t).reqs)

ExtNetListCall ==
    /\ Ready
    /\ \E t \in Answers(ExtNetListDocs, {NoHeaders}) :
          Called([op |-> "ext_net_list", pre |-> Pre, res |-> ext_net_list(t).res],
                 ext_net_list(t).reqs)

\* VCloudAPIClient.org(name): org_short.href on None is an AttributeError
OrgCall ==
    /\ Ready
    /\ \E name \in Names, t1 \in Answers(OrgListDocs, {NoHeaders}) :
          LET l == org_list(t1)
              call(res) == [op |-> "org", pre |-> Pre, arg |-> name, list |-> l.res, res |-> res]
          IN IF ~l.res.ok THEN Called(call(l.res), l.reqs)
             ELSE LET org_short == org_by_name(l.res.val.orgs, name)
                  IN IF org_short = NoneObj
                     THEN Called(call(Raise("AttributeError", "href")), l.reqs)
                     ELSE \E t2 \in Answers(FullOrgDocs, {NoHeaders}) :
                             Called(call(IF ~Fetch(t2).ok THEN Fetch(t2)
                                         ELSE _parse_org(Fetch(t2).val)),
                                    l.reqs \o <<Request("get", org_short.href, authHeader, None)>>)

\* VCloudAPIClient.ext_net(name)
ExtNetCall ==
    /\ Ready
    /\ \E name \in NetNames, t1 \in Answers(ExtNetListDocs, {NoHeaders}) :
          LET l == ext_net_list(t1)
              call(res) == [op |-> "ext_net", pre |-> Pre, arg |-> name, list |-> l.res, res |-> res]
          IN IF ~l.res.ok THEN Called(call(l.res), l.reqs)
             ELSE LET ext_net_short == ext_net_by_name(l.res.val.ext_nets, name)
                  IN IF ext_net_short = NoneObj
                     THEN Called(call(Raise("AttributeError", "href")), l.reqs)
                     ELSE \E t2 \in Answers(FullExtNetDocs, {NoHeaders}) :
                             Called(call(IF ~Fetch(t2).ok THEN Fetch(t2)
                                         ELSE _parse_ext_net(Fetch(t2).val)),
                                    l.reqs \o <<Request("get", ext_net_short.href, authHeader, None)>>)

Next ==
    \/ Construct
    \/ Return
    \/ Login
    \/ ReqCall
    \/ Browse
    \/ LoggedIn
    \/ Lookup
    \/ OrgListCall
    \/ ExtNetListCall
    \/ OrgCall
    \/ ExtNetCall
    \/ SetToken

Spec == Init /\ [][Next]_vars

(***************************************************************************)
(* SpecRecords: org_nets, org_vdcs and org_vapps on an Org the caller      *)
(* holds, through a logged-in client.                                      *)
(***************************************************************************)
IpRangeEl(first, lst) ==
    Elem(VCLOUD_NS, "IpRange", NoAttrib, None,
         <<Leaf("StartAddress", first), Leaf("EndAddress", lst)>>)

OrgNetDoc(scope) ==
    Elem(VCLOUD_NS, "OrgNetwork", [a \in {"name"} |-> "net-a"], None,
         <<Elem(VCLOUD_NS, "Configuration", NoAttrib, None,
                <<Elem(VCLOUD_NS, "IpScope", NoAttrib, None, scope)>>)>>)

OrgNetDocs ==
    {OrgNetDoc(<<Leaf("Gateway", "10.0.0.1"), Leaf("Netmask", "255.255.255.0"),
                 Leaf("DnsSuffix", "example.org"),
                 Elem(VCLOUD_NS, "IpRanges", NoAttrib, None,
                      <<IpRangeEl("10.0.0.10", "10.0.0.20"), IpRangeEl("10.0.0.40", "10.0.0.30")>>)>>),
     OrgNetDoc(<<Leaf("Gateway", "10.0.0.1"), Leaf("Netmask", "255.255.255.0"),
                 Leaf("DnsSuffix", None),
                 Elem(VCLOUD_NS, "IpRanges", NoAttrib, None, <<IpRangeEl("10.0.0.10", None)>>)>>),
     OrgNetDoc(<<Leaf("Netmask", "255.255.255.0"), Leaf("DnsSuffix", "example.org")>>)}

VdcDoc(cs) == FullDoc("Vdc", <<StorageCapacityEl, ComputeCapacityEl>> \o cs)

VdcDocs ==
    {VdcDoc(<<ResourceEntitiesEl(<<EntityEl(T_VAPP, "https://vc/api/vApp/1", "web"),
                                   EntityEl(T_MEDIA, "https://vc/api/media/1", "iso"),
                                   EntityEl(T_VAPP, "https://vc/api/vApp/2", "db")>>)>>),
     VdcDoc(<<ResourceEntitiesEl(<<EntityEl(T_MEDIA, "https://vc/api/media/1", "iso")>>)>>),
     VdcDoc(<<>>)}

OrgLinkPool ==
    {LinkEl(VCLOUD_NS, T_VDC, "https://vc/api/vdc/1"),
     LinkEl(VCLOUD_NS, T_VDC, "https://vc/api/vdc/2"),
     LinkEl(VCLOUD_NS, T_ORGNET, "https://vc/api/network/1")}

\* the Org records a caller can hold: org(name) decodes a full Org document,
\* org_list() yields the short ones (their links are None)
OrgObjects ==
    {_parse_org(FullDoc("Org", <<Leaf("FullName", "Acme Corp"), Leaf("Description", "tenant")>> \o cs)).val :
        cs \in SeqsUpTo(OrgLinkPool, MaxLinks)}
    \cup {_parse_org_short(ShortEl("Org", T_ORG, "https://vc/api/org/1", "Acme")).val}

SessionDoc0 ==
    Elem(VCLOUD_NS, "Session", NoAttrib, None,
         <<LinkEl(VCLOUD_NS, T_ORGLIST, "https://vc/api/org/")>>)

InitRecords ==
    /\ constructed = "yes"
    /\ root = "https://vc/api"
    /\ token = "tokA"
    /\ authHeader = "tokA"
    /\ links = _parse_links(SessionDoc0).val
    /\ linksSrc = [doc |-> SessionDoc0, auth |-> "tokA"]
    /\ reqs = <<>>
    /\ last = Idle
    /\ el = NoneObj
    /\ org \in OrgObjects

\* the loop of org_nets over the links found, ts[i] the transport's answer to
\* the i-th request
RECURSIVE OrgNetsLoop(_, _, _, _, _)
OrgNetsLoop(ls, ts, i, nets, rq) ==
    IF i > Len(ls) THEN [res |-> Ok(nets), reqs |-> rq]
    ELSE LET sent == Append(rq, Request("get", ls[i].href, authHeader, None))
             net == IF ~Fetch(ts[i]).ok THEN Fetch(ts[i]) ELSE _parse_org_nets(Fetch(ts[i]).val)
         IN IF ~net.ok THEN [res |-> net, reqs |-> sent]
            ELSE OrgNetsLoop(ls, ts, i + 1, Append(nets, net.val), sent)

\* the loop of org_vdcs
RECURSIVE OrgVdcsLoop(_, _, _, _, _)
OrgVdcsLoop(ls, ts, i, vdcs, rq) ==
    IF i > Len(ls) THEN [res |-> Ok(vdcs), reqs |-> rq]
    ELSE LET sent == Append(rq, Request("get", ls[i].href, authHeader, None))
             vdc == IF ~Fetch(ts[i]).ok THEN Fetch(ts[i]) ELSE _parse_org_vdcs(Fetch(ts[i]).val)
         IN IF ~vdc.ok THEN [res |-> vdc, reqs |-> sent]
            ELSE OrgVdcsLoop(ls, ts, i + 1, Append(vdcs, vdc.val), sent)

\* the loop of org_vapps over the decoded VDCs: the VDCs as the loop leaves
\* them and the entities gathered
RECURSIVE OrgVappsLoop(_, _, _, _)
OrgVappsLoop(ovdcs, i, after, r_entities) ==
    IF i > Len(ovdcs) THEN [vdcs |-> after, r_entities |-> r_entities]
    ELSE LET got == DefaultDictGet(ovdcs[i].entities, T_VAPP)
         IN OrgVappsLoop(ovdcs, i + 1,
                         Append(after, [ovdcs[i] EXCEPT !.entities = got.dict]),
                         r_entities \o got.list)

RecordsBecome(o, rq, la) ==
    /\ org' = o
    /\ reqs' = rq
    /\ last' = la
    /\ UNCHANGED <<constructed, root, token, authHeader, links, linksSrc, el>>

\* VCloudAPIClient.org_nets(org)
OrgNetsCall ==
    /\ Ready
    /\ LET call(res) == [op |-> "org_nets", pre |-> org, res |-> res]
       IN IF org.links = NoneObj
          THEN RecordsBecome(org, <<>>, call(Raise("TypeError", "subscript")))
          ELSE LET got == DefaultDictGet(org.links, T_ORGNET)
               IN \E ts \in [1..Len(got.list) -> Answers(OrgNetDocs, {NoHeaders})] :
                     LET r == OrgNetsLoop(got.list, ts, 1, <<>>, <<>>)
                     IN RecordsBecome([org EXCEPT !.links = got.dict], r.reqs, call(r.res))

\* VCloudAPIClient.org_vdcs(org)
OrgVdcsCall ==
    /\ Ready
    /\ LET call(res) == [op |-> "org_vdcs", pre |-> org, res |-> res]
       IN IF org.links = NoneObj
          THEN RecordsBecome(org, <<>>, call(Raise("TypeError", "subscript")))
          ELSE LET got == DefaultDictGet(org.links, T_VDC)
               IN \E ts \in [1..Len(got.list) -> Answers(VdcDocs, {NoHeaders})] :
                     LET r == OrgVdcsLoop(got.list, ts, 1, <<>>, <<>>)
                     IN RecordsBecome([org EXCEPT !.links = got.dict], r.reqs, call(r.res))

\* VCloudAPIClient.org_vapps(org)
OrgVappsCall ==
    /\ Ready
    /\ LET call(res, vdcs, after) ==
               [op |-> "org_vapps", pre |-> org, res |-> res, vdcs |-> vdcs, after |-> after]
       IN IF org.links = NoneObj
          THEN RecordsBecome(org, <<>>, call(Raise("TypeError", "subscript"), <<>>, <<>>))
          ELSE LET got == DefaultDictGet(org.links, T_VDC)
               IN \E ts \in [1..Len(got.list) -> Answers(VdcDocs, {NoHeaders})] :
                     LET r == OrgVdcsLoop(got.list, ts, 1, <<>>, <<>>)
                         v == OrgVappsLoop(r.res.val, 1, <<>>, <<>>)
                     IN IF ~r.res.ok
                        THEN RecordsBecome([org EXCEPT !.links = got.dict], r.reqs,
                                           call(r.res, <<>>, <<>>))
                        ELSE RecordsBecome([org EXCEPT !.links = got.dict], r.reqs,
                                           call(Ok(v.r_entities), r.res.val, v.vdcs))

NextRecords ==
    \/ OrgNetsCall
    \/ OrgVdcsCall
    \/ OrgVappsCall
    \/ Return

SpecRecords == InitRecords /\ [][NextRecords]_vars

(***************************************************************************)
(* Claims about the client (Spec).                                         *)
(***************************************************************************)
\* the auth header a request carried (None when it carried none)
AuthOf(r) ==
    IF VCLOUD_AUTH_HEADER \in DOMAIN r.headers THEN r.headers[VCLOUD_AUTH_HEADER] ELSE None

\* the media type _lookup is to build for each short type name
MediaType(typ) ==
    CASE typ = "vcloud.orgList" -> T_ORGLIST
      [] typ = "admin.vcloud" -> T_ADMIN
      [] typ = "vcloud.vdc" -> T_VDC

\* the Link children of document doc that declare media type mt, in document order
LinksOfType(doc, mt) == SelectSeq(LinkChildren(doc), LAMBDA c : c.attrib["type"] = mt)

SessionCalls == {"_req", "browse", "logged_in", "_lookup", "org_list", "ext_net_list", "org", "ext_net"}

LookupCalls == {"org_list", "ext_net_list", "org", "ext_net"}

LookupTyp(op) == IF op \in {"org_list", "org"} THEN "vcloud.orgList" ELSE "admin.vcloud"

\* C1: when login has returned, the stored token is the one of the login
\* response's header, the session-document request of that login carried it,
\* and the LinkIndex groups the links of the document that request fetched;
\* every request of a later call (the credential request of a later login
\* included) carries the stored token, which only login and an assignment to
\* client.token change; such an assignment stores its value, sends nothing
\* and sets the header of the requests that follow.
C1_LoginStoresToken ==
    /\ (last.op = "login" /\ last.res.ok)
          => /\ token = last.hdrTok
             /\ Len(reqs) = 2
             /\ reqs[2].method = "get"
             /\ reqs[2].url = root \o "/session"
             /\ AuthOf(reqs[2]) = last.hdrTok
             /\ links # NoneObj
             /\ StableGrouping(links, LinkChildren(last.doc))
    /\ last.op = "login" => AuthOf(reqs[1]) = last.pre.token
    /\ last.op = "token=" => (token = last.arg /\ authHeader = last.arg /\ reqs = <<>>)
    /\ last.op \in SessionCalls
          => /\ token = last.pre.token
             /\ \A i \in 1..Len(reqs) : AuthOf(reqs[i]) = token

\* a login that replaced an earlier token and fetched a document with links
C1_Witness ==
    /\ last.op = "login"
    /\ last.res.ok
    /\ last.pre.token \notin {None, last.hdrTok}
    /\ token = last.hdrTok
    /\ T_ORGLIST \in DOMAIN links

\* C2: with the LinkIndex set, _lookup(typ) returns the href of the first Link,
\* in document order, of the session document that declares the media type of
\* typ, raises APIError "Don't know anything about type" exactly when the
\* LinkIndex has no entry for that media type, and leaves the LinkIndex as it
\* was; org_list and ext_net_list send their GET to that href.
C2_LookupFirst ==
    /\ (last.op = "_lookup" /\ last.pre.links # NoneObj)
          => LET same == LinksOfType(linksSrc.doc, MediaType(last.arg))
             IN /\ links = last.pre.links
                /\ same # <<>> => last.res = Ok(same[1].attrib["href"])
                /\ (last.res = Raise("APIError", "Don't know anything about type"))
                      <=> MediaType(last.arg) \notin DOMAIN links
                /\ last.res.ok \/ last.res = Raise("APIError", "Don't know anything about type")
    /\ (last.op \in {"org_list", "ext_net_list"} /\ last.pre.links # NoneObj)
          => LET same == LinksOfType(linksSrc.doc, MediaType(LookupTyp(last.op)))
             IN /\ links = last.pre.links
                /\ same # <<>> => (Len(reqs) = 1 /\ reqs[1].url = same[1].attrib["href"])
                /\ same = <<>> => (reqs = <<>> /\ last.res = Raise("APIError", "Don't know anything about type"))

\* a lookup of a type under which two links with different hrefs are registered
C2_Witness ==
    /\ last.op = "_lookup"
    /\ last.res.ok
    /\ Len(links[MediaType(last.arg)]) = 2
    /\ links[MediaType(last.arg)][1].href # links[MediaType(last.arg)][2].href

\* C3 (as claimed): _req with _raise set returns the response for a 2xx status
\* and raises APIError for every other status; with _raise unset it returns
\* the response whatever the status.
C3_RaisesOnNon2xx ==
    (last.op = "_req" /\ last.t.ok)
        => LET s == last.t.val.status_code
           IN /\ (last.raise /\ 200 <= s /\ s < 300) => last.res = Ok(last.t.val)
              /\ (last.raise /\ ~(200 <= s /\ s < 300))
                    => (~last.res.ok /\ last.res.exc = "APIError")
              /\ ~last.raise => last.res = Ok(last.t.val)

\* C3 (amended): _req with _raise set raises APIError exactly for a 4xx or 5xx
\* status and returns the response for every other status; with _raise unset
\* it returns the response whatever the status.
C3_RaisesOn4xx5xx ==
    (last.op = "_req" /\ last.t.ok)
        => LET s == last.t.val.status_code
           IN /\ (last.raise /\ ~(400 <= s /\ s <= 599)) => last.res = Ok(last.t.val)
              /\ (last.raise /\ 400 <= s /\ s <= 599)
                    => (~last.res.ok /\ last.res.exc = "APIError")
              /\ ~last.raise => last.res = Ok(last.t.val)

\* a raising request answered 304: the response is returned
C3_Witness ==
    /\ last.op = "_req"
    /\ last.raise
    /\ last.t.ok
    /\ last.t.val.status_code = 304
    /\ last.res.ok

\* C4: when __init__ returns after a probe answered with an error status the
\* LinkIndex is None, and after a probe that succeeded it groups the links of
\* the session document fetched; a LinkIndex that is None stays None over
\* every call (an assignment to client.token included) but a login that
\* returns, and while it is None org_list, org, ext_net_list and ext_net
\* raise without sending a request.
C4_UnsetUntilLogin ==
    /\ (last.op = "__init__" /\ constructed = "yes")
          => /\ (400 <= last.probe /\ last.probe <= 599) => links = NoneObj
             /\ ~(400 <= last.probe /\ last.probe <= 599)
                   => (links # NoneObj /\ StableGrouping(links, LinkChildren(linksSrc.doc)))
    /\ (last.op \in SessionCalls \cup {"login", "token="} /\ last.pre.links = NoneObj)
          => /\ links # NoneObj => (last.op = "login" /\ last.res.ok)
             /\ last.op \in LookupCalls => (~last.res.ok /\ reqs = <<>>)

\* a client built with a token the server rejects, then asked for the org list
C4_Witness ==
    /\ last.op = "org_list"
    /\ token # None
    /\ last.pre.links = NoneObj
    /\ ~last.res.ok
    /\ reqs = <<>>

\* C5 (as claimed): no call ends with an exception of the transport library.
C5_TransportWrapped ==
    (last.op \notin {"idle", "init"} /\ ~last.res.ok)
        => last.res.exc \notin {"ConnectionError", "Timeout"}

\* C6 (as claimed): org(name) and ext_net(name), when the fetched list holds no
\* item of that name, raise an error of the API's own kinds and send no second
\* request.
C6_AbsentNameReported ==
    /\ (last.op = "org" /\ last.list.ok
          /\ \A i \in 1..Len(last.list.val.orgs) : last.list.val.orgs[i].name # last.arg)
          => (~last.res.ok /\ last.res.exc \in {"APIError", "ClientError", "NotFoundError"}
                /\ Len(reqs) = 1)
    /\ (last.op = "ext_net" /\ last.list.ok
          /\ \A i \in 1..Len(last.list.val.ext_nets) : last.list.val.ext_nets[i].name # last.arg)
          => (~last.res.ok /\ last.res.exc \in {"APIError", "ClientError", "NotFoundError"}
                /\ Len(reqs) = 1)

\* C9 (as claimed): a login either replaces the token and the LinkIndex both or
\* leaves both as they were, and in every state a LinkIndex that is set was
\* fetched under the token now stored.
C9_ReplacedTogether ==
    /\ last.op = "login"
          => \/ (token = last.pre.token /\ links = last.pre.links)
             \/ (last.res.ok /\ token = last.hdrTok
                    /\ StableGrouping(links, LinkChildren(last.doc)))
    /\ (constructed = "yes" /\ links # NoneObj) => linksSrc.auth = token

(***************************************************************************)
(* Claims about the record operations (SpecRecords).                       *)
(***************************************************************************)
RecordKey(op) == IF op = "org_nets" THEN T_ORGNET ELSE T_VDC

\* C10 (as claimed): org_nets, org_vdcs and org_vapps leave the Org they are
\* given and the OrgVdcs they decode as they were, the keys of the indices
\* included; an Org without a link of the media type yields the empty list
\* and no request.
C10_RecordsUnchanged ==
    last.op \in {"org_nets", "org_vdcs", "org_vapps"}
        => /\ org = last.pre
           /\ last.op = "org_vapps" => last.after = last.vdcs
           /\ (last.pre.links # NoneObj /\ RecordKey(last.op) \notin DOMAIN last.pre.links)
                 => (last.res = Ok(<<>>) /\ reqs = <<>>)

====
